---- MODULE Spec2Model ----
(***************************************************************************)
(* A model of the colleges API server (src/index.js): the CSV load, the    *)
(* request handlers, the response cache (node-cache, stdTTL 600) and the   *)
(* clock.  JavaScript strings are TLA+ strings; JavaScript values that can *)
(* be a number, a string or undefined are records [k, n, s].               *)
(*                                                                         *)
(* Six specifications:                                                     *)
(*   Spec       the server from process start: 'data' and 'end' events,    *)
(*              the clock, the cache's periodic check and requests         *)
(*              interleave;                                                *)
(*   SpecFault  the same server reading a file with incomplete rows, on    *)
(*              which the handlers throw;                                  *)
(*   SpecLife   the same server with a source file that may be missing     *)
(*              and with SIGTERM;                                          *)
(*   SpecQuery  one request of any shape to a server that has loaded one   *)
(*              of several datasets (the handlers as functions of the      *)
(*              dataset and the request);                                  *)
(*   SpecKeys   the cache keys the handlers build for two requests;        *)
(*   SpecNames  cleanCollegeName applied to name strings, once and twice.  *)
(*                                                                         *)
(* Library behaviour the handlers rely on is modelled as the libraries     *)
(* implement it: express-validator validates the string form of a field    *)
(* (isInt accepts 2 and "2"), its trim() sanitizer replaces the field in   *)
(* req.body, and optional() skips an undefined field; node-cache stores    *)
(* Date.now() + stdTTL * 1000 with an entry and treats the entry as        *)
(* expired when that time is before Date.now().                            *)
(***************************************************************************)
EXTENDS Integers, Sequences, FiniteSets, TLC

VARIABLES
    file,       \* the rows of db/database.csv, in file order
    colleges,   \* let colleges = [] : the rows pushed so far
    csv,        \* the read stream: "reading" until its 'end' event, then "end";
                \* "failing" while the open of a missing or unreadable file is
                \* pending, then "error"
    now,        \* Date.now(), in milliseconds since the process started
    cache,      \* NodeCache data: key -> [v: stored value, t: expiry time]
    served,     \* number of requests handled so far
    res,        \* the last request handled and the response sent for it
    pair,       \* two requests and the cache keys built for them
    proc,       \* the process: "running" until an uncaught exception ends
                \* it; then the event whose listener threw
    norm        \* a name string and what cleanCollegeName made of it

vars == <<file, colleges, csv, now, cache, served, res, pair, proc, norm>>

----------------------------------------------------------------------------
(* JavaScript values *)

Undef == [k |-> "undef", n |-> 0, s |-> ""]
Null == [k |-> "null", n |-> 0, s |-> ""]
NaN == [k |-> "nan", n |-> 0, s |-> ""]
Infinity == [k |-> "inf", n |-> 0, s |-> ""]
Num(i) == [k |-> "num", n |-> i, s |-> ""]
Str(t) == [k |-> "str", n |-> 0, s |-> t]

CharAt(s, i) == SubSeq(s, i, i)

UpperAlpha == "ABCDEFGHIJKLMNOPQRSTUVWXYZ"
LowerAlpha == "abcdefghijklmnopqrstuvwxyz"
Digits == "0123456789"

IndexIn(alpha, c) ==
    IF \E i \in 1..Len(alpha) : CharAt(alpha, i) = c
    THEN CHOOSE i \in 1..Len(alpha) : CharAt(alpha, i) = c
    ELSE 0

LowerChar(c) ==
    IF IndexIn(UpperAlpha, c) > 0 THEN CharAt(LowerAlpha, IndexIn(UpperAlpha, c)) ELSE c

RECURSIVE toLowerCase(_)
toLowerCase(s) ==
    IF s = "" THEN "" ELSE LowerChar(CharAt(s, 1)) \o toLowerCase(Tail(s))

\* String.prototype.includes
includes(s, sub) ==
    \E i \in 0..(Len(s) - Len(sub)) : SubSeq(s, i + 1, i + Len(sub)) = sub

IsSpace(c) == c \in {" ", "\t"}

RECURSIVE trimStart(_)
trimStart(s) ==
    IF s # "" /\ IsSpace(CharAt(s, 1)) THEN trimStart(Tail(s)) ELSE s

RECURSIVE trimEnd(_)
trimEnd(s) ==
    IF s # "" /\ IsSpace(CharAt(s, Len(s)))
    THEN trimEnd(SubSeq(s, 1, Len(s) - 1))
    ELSE s

\* String.prototype.trim
trim(s) == trimEnd(trimStart(s))

IsDigits(s) ==
    /\ s # ""
    /\ \A i \in 1..Len(s) : IndexIn(Digits, CharAt(s, i)) > 0

RECURSIVE ParseDigits(_)
ParseDigits(s) ==
    IF s = "" THEN 0
    ELSE 10 * ParseDigits(SubSeq(s, 1, Len(s) - 1))
         + (IndexIn(Digits, CharAt(s, Len(s))) - 1)

\* a decimal integer literal with an optional sign: /^[-+]?[0-9]+$/
IsIntString(s) ==
    /\ s # ""
    /\ IsDigits(IF CharAt(s, 1) \in {"-", "+"} THEN Tail(s) ELSE s)

ParseIntString(s) ==
    IF CharAt(s, 1) = "-" THEN 0 - ParseDigits(Tail(s))
    ELSE IF CharAt(s, 1) = "+" THEN ParseDigits(Tail(s))
    ELSE ParseDigits(s)

RECURSIVE DigitsOf(_)
DigitsOf(n) ==
    IF n < 10 THEN CharAt(Digits, n + 1)
    ELSE DigitsOf(n \div 10) \o CharAt(Digits, (n % 10) + 1)

\* the decimal text of an integer, as a template literal renders it
IntToString(n) == IF n < 0 THEN "-" \o DigitsOf(0 - n) ELSE DigitsOf(n)

\* ToNumber: the coercion applied by -, *, / and Number() to a query or body
\* value (decimal integers only; the inputs hold no fractions or exponents)
ToNumber(v) ==
    IF v.k \in {"num", "nan", "inf"} THEN v
    ELSE IF v.k = "null" THEN Num(0)
    ELSE IF v.k = "undef" THEN NaN
    ELSE IF trim(v.s) = "" THEN Num(0)
    ELSE IF IsIntString(trim(v.s)) THEN Num(ParseIntString(trim(v.s)))
    ELSE NaN

\* how a template literal `${v}` renders a value
TemplateString(v) ==
    CASE v.k = "str" -> v.s
      [] v.k = "num" -> IntToString(v.n)
      [] v.k = "nan" -> "NaN"
      [] v.k = "inf" -> "Infinity"
      [] v.k = "null" -> "null"
      [] OTHER -> "undefined"

\* a - b, a * b on numbers (no operand is infinite in this program)
JsSub(a, b) ==
    IF ToNumber(a).k = "num" /\ ToNumber(b).k = "num"
    THEN Num(ToNumber(a).n - ToNumber(b).n) ELSE NaN

JsMul(a, b) ==
    IF ToNumber(a).k = "num" /\ ToNumber(b).k = "num"
    THEN Num(ToNumber(a).n * ToNumber(b).n) ELSE NaN

\* Math.ceil(len / d) for an array length len >= 0 (-0 is written 0)
CeilDiv(len, d) ==
    LET q == ToNumber(d) IN
    IF q.k # "num" THEN NaN
    ELSE IF q.n = 0 THEN (IF len = 0 THEN NaN ELSE Infinity)
    ELSE IF q.n > 0 THEN Num((len + q.n - 1) \div q.n)
    ELSE Num(0 - (len \div (0 - q.n)))

\* Array.prototype.slice(start, end): NaN is 0, a negative index counts
\* from the end, both are clamped to the array
SliceIndex(len, x) ==
    IF x.k # "num" THEN 0
    ELSE IF x.n < 0 THEN (IF len + x.n < 0 THEN 0 ELSE len + x.n)
    ELSE IF x.n > len THEN len ELSE x.n

slice(arr, start, end) ==
    SubSeq(arr, SliceIndex(Len(arr), start) + 1, SliceIndex(Len(arr), end))

\* JSON.stringify of a number or string: NaN and Infinity are written null
Json(v) == IF v.k \in {"nan", "inf", "undef"} THEN Null ELSE v

----------------------------------------------------------------------------
(* cleanCollegeName *)

\* the end of the match of /\:[^>]*\)/ at a colon at index i: [^>]* is
\* greedy, so the match runs to the last ")" before the next ">" (0: no match)
ColonMatchEnd(s, i) ==
    LET stops == {j \in (i + 1)..Len(s) : CharAt(s, j) = ">"}
        lim == IF stops = {} THEN Len(s)
               ELSE (CHOOSE j \in stops : \A m \in stops : j <= m) - 1
        ends == {j \in (i + 1)..lim : CharAt(s, j) = ")"}
    IN IF ends = {} THEN 0 ELSE CHOOSE j \in ends : \A m \in ends : m <= j

\* name.replace(/\:[^>]*\)/ig, "")
RECURSIVE StripColon(_)
StripColon(s) ==
    IF s = "" THEN ""
    ELSE IF CharAt(s, 1) = ":" /\ ColonMatchEnd(s, 1) > 0
    THEN StripColon(SubSeq(s, ColonMatchEnd(s, 1) + 1, Len(s)))
    ELSE CharAt(s, 1) \o StripColon(Tail(s))

\* .replace(/(\(Id)/ig, "")
RECURSIVE StripId(_)
StripId(s) ==
    IF s = "" THEN ""
    ELSE IF Len(s) >= 3 /\ toLowerCase(SubSeq(s, 1, 3)) = "(id"
    THEN StripId(SubSeq(s, 4, Len(s)))
    ELSE CharAt(s, 1) \o StripId(Tail(s))

cleanCollegeName(name) == trim(StripId(StripColon(name)))

----------------------------------------------------------------------------
(* Array helpers *)

\* the characters of the model's strings in UTF-16 code unit order
CodeOrder ==
    "\t ()+-0123456789:>ABCDEFGHIJKLMNOPQRSTUVWXYZabcdefghijklmnopqrstuvwxyz"

\* a < b as Array.prototype.sort() compares two strings
RECURSIVE StrLess(_, _)
StrLess(a, b) ==
    IF b = "" THEN FALSE
    ELSE IF a = "" THEN TRUE
    ELSE IF CharAt(a, 1) = CharAt(b, 1) THEN StrLess(Tail(a), Tail(b))
    ELSE IndexIn(CodeOrder, CharAt(a, 1)) < IndexIn(CodeOrder, CharAt(b, 1))

Range(arr) == {arr[i] : i \in 1..Len(arr)}

\* [...new Set(arr)].sort() for an array of strings
RECURSIVE SortSet(_)
SortSet(S) ==
    IF S = {} THEN <<>>
    ELSE LET m == CHOOSE x \in S : \A y \in S \ {x} : StrLess(x, y)
         IN <<m>> \o SortSet(S \ {m})

\* a variant of sortedDistinct that sorts descending
sortedDistinctDescending(arr) ==
    LET up == SortSet(Range(arr))
    IN [i \in 1..Len(up) |-> up[Len(up) + 1 - i]]

sortedDistinct(arr) == SortSet(Range(arr))

\* arr.map(college => ({...college, name: cleanCollegeName(college.name)}))
mapClean(arr) ==
    [i \in 1..Len(arr) |-> [arr[i] EXCEPT !.name = cleanCollegeName(arr[i].name)]]

----------------------------------------------------------------------------
(* The response cache: new NodeCache({ stdTTL: 600 }) *)

stdTTL == 600

\* a variant of expired that adds the time to live to the stored expiry time
expiredTtlAddedTwice(e, t) == e.t + stdTTL * 1000 < t

\* node-cache _check: an entry is expired once its time t is before now
expired(e, t) == e.t < t

\* cache.get(key) found a value (every stored value is an object or an
\* array, so `if (cachedResult)` is taken exactly when a value is found)
cacheHit(c, key, t) == key \in DOMAIN c /\ ~expired(c[key], t)

\* the data left by cache.get(key): an expired entry is deleted on lookup
cacheAfterGet(c, key, t) ==
    IF key \in DOMAIN c /\ expired(c[key], t)
    THEN [x \in DOMAIN c \ {key} |-> c[x]]
    ELSE c

\* cache.set(key, value): the entry lives stdTTL seconds from now
cacheSet(c, key, value, t) ==
    [x \in DOMAIN c \union {key} |->
        IF x = key THEN [v |-> value, t |-> t + stdTTL * 1000] ELSE c[x]]

----------------------------------------------------------------------------
(* The query computations of the handlers *)

\* a variant of searchFilter that compares without lowering the case
searchFilterCaseSensitive(cs, keyword) ==
    LET match(c) == includes(c.name, keyword)
    IN SelectSeq(cs, match)

\* colleges.filter(college => college.name.toLowerCase().includes(keyword.toLowerCase()))
searchFilter(cs, keyword) ==
    LET match(c) == includes(toLowerCase(c.name), toLowerCase(keyword))
    IN SelectSeq(cs, match)

\* colleges.filter(college => college.state.toLowerCase() === state.toLowerCase())
stateFilter(cs, state) ==
    LET match(c) == toLowerCase(c.state) = toLowerCase(state)
    IN SelectSeq(cs, match)

\* a variant of districtFilter that keeps the rows whose district contains
\* the parameter
districtFilterSubstring(cs, district) ==
    LET match(c) == includes(toLowerCase(c.district), toLowerCase(district))
    IN SelectSeq(cs, match)

\* colleges.filter(college => college.district.toLowerCase() === district.toLowerCase())
districtFilter(cs, district) ==
    LET match(c) == toLowerCase(c.district) = toLowerCase(district)
    IN SelectSeq(cs, match)

\* a variant of paginatedResult that counts pages from 0
paginatedResultZeroBased(result, page, limit) ==
    slice(result, JsMul(page, limit), JsMul(JsSub(page, Num(-1)), limit))

\* a variant of paginatedResult that sends the last records for a page past
\* the end of the result
paginatedResultClamped(result, page, limit) ==
    IF JsMul(JsSub(page, Num(1)), limit).k = "num"
       /\ JsMul(JsSub(page, Num(1)), limit).n >= Len(result)
    THEN slice(result, JsSub(Num(0), limit), Num(Len(result)))
    ELSE slice(result, JsMul(JsSub(page, Num(1)), limit), JsMul(page, limit))

\* result.slice((page - 1) * limit, page * limit)
paginatedResult(result, page, limit) ==
    slice(result, JsMul(JsSub(page, Num(1)), limit), JsMul(page, limit))

\* Math.ceil(result.length / limit)
totalPages(result, limit) == CeilDiv(Len(result), limit)

\* the response object of the search handler: page and limit as received
searchResponse(cs, keyword, page, limit) ==
    LET result == mapClean(searchFilter(cs, keyword))
    IN [data |-> paginatedResult(result, page, limit),
        page |-> page,
        limit |-> limit,
        total |-> Len(result),
        totalPages |-> totalPages(result, limit)]

\* the response object of the state handler: Number(page), Number(limit)
stateResponse(cs, state, page, limit) ==
    LET result == mapClean(stateFilter(cs, state))
    IN [data |-> paginatedResult(result, page, limit),
        page |-> ToNumber(page),
        limit |-> ToNumber(limit),
        total |-> Len(result),
        totalPages |-> totalPages(result, limit)]

districtResponse(cs, district, page, limit) ==
    LET result == mapClean(districtFilter(cs, district))
    IN [data |-> paginatedResult(result, page, limit),
        page |-> ToNumber(page),
        limit |-> ToNumber(limit),
        total |-> Len(result),
        totalPages |-> totalPages(result, limit)]

\* [...new Set(colleges.map(college => college.state))].sort()
allStatesResult(cs) == sortedDistinct([i \in 1..Len(cs) |-> cs[i].state])

\* the sorted distinct districts of the colleges of a state
districtsResult(cs, state) ==
    LET rows == stateFilter(cs, state)
    IN sortedDistinct([i \in 1..Len(rows) |-> rows[i].district])

\* res.json(response): what the client receives for a response object
jsonEnvelope(r) ==
    [data |-> r.data,
     page |-> Json(r.page),
     limit |-> Json(r.limit),
     total |-> r.total,
     totalPages |-> Json(r.totalPages)]

----------------------------------------------------------------------------
(* Validation chains (express-validator) *)

\* isInt on a field value: the value as a string is a decimal integer
isInt(v) == v.k = "num" \/ (v.k = "str" /\ IsIntString(v.s))

\* body('page').optional().isInt({ min: 1 })
pageValid(v) == v.k = "undef" \/ (isInt(v) /\ ToNumber(v).n >= 1)

\* body('limit').optional().isInt({ min: 1, max: 100 })
limitValid(v) ==
    v.k = "undef" \/ (isInt(v) /\ ToNumber(v).n >= 1 /\ ToNumber(v).n <= 100)

\* a variant of keywordValid that does not trim before notEmpty
keywordValidUntrimmed(v) == v.k = "str" /\ v.s # ""

\* body('keyword').isString().trim().notEmpty()
keywordValid(v) == v.k = "str" /\ trim(v.s) # ""

\* const { page = 1, limit = 10 } : a default replaces undefined only
orDefault(v, d) == IF v.k = "undef" THEN Num(d) ELSE v

----------------------------------------------------------------------------
(* Bounds and inputs *)

MaxRequests == 2
MaxRows == 3
MaxTokens == 3

\* rows of source files: the scenario of the specification's section 8, and
\* a row whose name and state differ from them in case and annotations
Row1 == [name |-> "ABC College (Id:12)", state |-> "X", district |-> "D1"]
Row2 == [name |-> "XYZ Inst", state |-> "X", district |-> "D2"]
Row3 == [name |-> "ABC Tech", state |-> "Y", district |-> "D3"]
Row4 == [name |-> "Tech abc:1) (ID", state |-> "x", district |-> "D1"]
Row5 == [name |-> "PQR (id) Univ", state |-> "X", district |-> "D0"]

\* rows of a line of the file with fewer cells than the header has columns:
\* csv-parser gives the row no property for a missing cell
RowNoName == [state |-> "X", district |-> "D1"]
RowNoDistrict == [name |-> "PQR", state |-> "Z"]

\* files holding such a row
FaultFiles == {<<Row1, RowNoName>>, <<Row3, RowNoDistrict>>}

\* the file read by the server started in Init
SourceFiles == {<<Row1, Row3>>}

\* the instants the clock is observed at, in milliseconds
Instants == {0, stdTTL * 1000, stdTTL * 1000 + 1}

\* the requests sent to the server started in Init: req.body of a search,
\* and req.params, req.query and req.body of the GET endpoints
SearchRequests ==
    {[keyword |-> Undef, page |-> Undef, limit |-> Undef],
     [keyword |-> Num(5), page |-> Undef, limit |-> Undef],
     [keyword |-> Str(""), page |-> Undef, limit |-> Undef],
     [keyword |-> Str(" "), page |-> Undef, limit |-> Undef],
     [keyword |-> Str("abc"), page |-> Undef, limit |-> Undef],
     [keyword |-> Str("abc"), page |-> Str("1"), limit |-> Undef]}
StateRequests ==
    {[state |-> "X", page |-> Undef, limit |-> Undef, bpage |-> Undef, blimit |-> Undef],
     [state |-> "X", page |-> Undef, limit |-> Str("0"), bpage |-> Undef, blimit |-> Undef],
     [state |-> "X", page |-> Undef, limit |-> Undef, bpage |-> Undef, blimit |-> Num(0)]}
DistrictRequests ==
    {[district |-> "d3", page |-> Str("0"), limit |-> Undef, bpage |-> Undef, blimit |-> Undef]}
DistrictsRequests == {"x"}

\* the datasets and requests of the query engine's specification
Catalogue == <<Row1, Row2, Row3, Row4, Row5>>

RECURSIVE Pick(_, _)
Pick(rows, I) ==
    IF rows = <<>> THEN <<>>
    ELSE Pick(SubSeq(rows, 1, Len(rows) - 1), I)
         \o (IF Len(rows) \in I THEN <<rows[Len(rows)]>> ELSE <<>>)

Datasets ==
    {Pick(Catalogue, I) : I \in {J \in SUBSET (1..Len(Catalogue)) : Cardinality(J) <= MaxRows}}

Keywords == {Str("abc"), Str("ABC"), Str("tech "), Str(" Tech"), Str("c")}
BodyPages == {Undef, Num(2), Num(3), Str("2")}
BodyLimits == {Undef, Num(1), Num(2), Str("2"), Num(100), Num(0), Num(101)}
PathStates == {"X", "y"}
PathDistricts == {"d1", "d"}
QueryPages == {Undef, Str("2")}
QueryLimits == {Undef, Str("1"), Str("0"), Str("-100"), Str("x")}

QueryEndpoints == {"total", "search", "state", "district", "allstates", "districts"}
CachedEndpoints == {"search", "state", "district", "allstates", "districts"}
PagedEndpoints == {"search", "state", "district"}

----------------------------------------------------------------------------
(* State *)

NoCache == [x \in {} |-> 0]

NoResponse ==
    [ep |-> "none", status |-> 0, body |-> <<>>, hit |-> FALSE, got |-> FALSE,
     set |-> FALSE, key |-> "", arg |-> "", raw |-> Undef, page |-> Undef,
     limit |-> Undef, seen |-> 0, ended |-> FALSE, at |-> 0, old |-> -1,
     exp |-> 0, logged |-> "", faults |-> 0]

NoPair == [a |-> <<>>, b |-> <<>>, ka |-> "", kb |-> "", built |-> FALSE]

NoNorm == [name |-> "", out |-> "", again |-> "", step |-> 0]

Init ==
    /\ file \in SourceFiles
    /\ colleges = <<>>
    /\ csv = "reading"
    /\ now = 0
    /\ cache = NoCache
    /\ served = 0
    /\ res = NoResponse
    /\ pair = NoPair
    /\ proc = "running"
    /\ norm = NoNorm

\* the record of a request handled in the current state: got and set tell
\* whether the handler called cache.get and cache.set, old is the expiry
\* time of the entry the key had before the lookup (-1: none), exp the
\* expiry time of the entry served or stored, logged the line written by
\* console.error and faults the number of requests answered 500 so far
Sent(ep, status, body, hit, got, set, key, arg, raw, page, limit) ==
    [ep |-> ep, status |-> status, body |-> body, hit |-> hit, got |-> got,
     set |-> set, key |-> key, arg |-> arg, raw |-> raw, page |-> page,
     limit |-> limit, seen |-> Len(colleges), ended |-> (csv = "end"),
     at |-> now,
     old |-> IF got /\ key \in DOMAIN cache THEN cache[key].t ELSE -1,
     exp |-> IF hit THEN cache[key].t ELSE IF set THEN now + stdTTL * 1000 ELSE 0,
     logged |-> "", faults |-> res.faults]

----------------------------------------------------------------------------
(* The CSV load *)

\* .on('data', (row) => { colleges.push(row); })
OnData ==
    /\ proc = "running"
    /\ csv = "reading"
    /\ Len(colleges) < Len(file)
    /\ colleges' = Append(colleges, file[Len(colleges) + 1])
    /\ UNCHANGED <<proc, norm, pair, file, csv, now, cache, served, res>>

\* .on('end', ...)
OnEnd ==
    /\ proc = "running"
    /\ csv = "reading"
    /\ Len(colleges) = Len(file)
    /\ csv' = "end"
    /\ UNCHANGED <<proc, norm, pair, file, colleges, now, cache, served, res>>

\* time passes
Tick ==
    /\ proc = "running"
    /\ \E t \in Instants : t > now /\ now' = t
    /\ UNCHANGED <<proc, norm, pair, file, colleges, csv, cache, served, res>>

\* node-cache's periodic _checkData: every expired entry is deleted
checkData ==
    /\ proc = "running"
    /\ \E x \in DOMAIN cache : expired(cache[x], now)
    /\ cache' = [x \in {y \in DOMAIN cache : ~expired(cache[y], now)} |-> cache[x]]
    /\ UNCHANGED <<proc, norm, pair, file, colleges, csv, now, served, res>>

----------------------------------------------------------------------------
(* The request handlers *)

\* res.json(value) of a cached handler: an envelope or an array of strings
resJson(ep, value) == IF ep \in PagedEndpoints THEN jsonEnvelope(value) ELSE value

ValidationErrors == [errors |-> "errors.array()"]

\* the error a handler's computation throws (NoError: none): reading a
\* property of the undefined value of a field the row does not have
NoError == ""
TypeError == "TypeError: Cannot read properties of undefined"

has(college, field) == field \in DOMAIN college

\* college.name.toLowerCase() in the filter of the search handler
searchError(cs) ==
    IF \E i \in 1..Len(cs) : ~has(cs[i], "name") THEN TypeError ELSE NoError

\* college.state.toLowerCase() in the filter, then cleanCollegeName(college.name)
\* in the map over the rows the filter kept
stateError(cs, state) ==
    IF \E i \in 1..Len(cs) : ~has(cs[i], "state") THEN TypeError
    ELSE IF \E i \in 1..Len(cs) :
               /\ toLowerCase(cs[i].state) = toLowerCase(state)
               /\ ~has(cs[i], "name")
         THEN TypeError ELSE NoError

districtError(cs, district) ==
    IF \E i \in 1..Len(cs) : ~has(cs[i], "district") THEN TypeError
    ELSE IF \E i \in 1..Len(cs) :
               /\ toLowerCase(cs[i].district) = toLowerCase(district)
               /\ ~has(cs[i], "name")
         THEN TypeError ELSE NoError

\* college.state.toLowerCase() in the filter of the districts handler
districtsError(cs) ==
    IF \E i \in 1..Len(cs) : ~has(cs[i], "state") THEN TypeError ELSE NoError

\* a variant of errorMiddleware that sends the error it logs
errorMiddlewareSendsError(err) ==
    [logged |-> err, status |-> 500, body |-> err]

\* app.use((err, req, res, next) => ...): console.error(err.stack) and
\* res.status(500).send('Something broke!')
errorMiddleware(err) ==
    [logged |-> err, status |-> 500, body |-> "Something broke!"]

\* a variant of Lookup that stores the entry again when it is found
LookupStoresOnHit(ep, key, err, response, arg, raw, page, limit) ==
    IF cacheHit(cache, key, now)
    THEN /\ res' = Sent(ep, 200, resJson(ep, cache[key].v), TRUE, TRUE, FALSE,
                        key, arg, raw, page, limit)
         /\ cache' = cacheSet(cache, key, cache[key].v, now)
    ELSE IF err # NoError
    THEN /\ res' = [Sent(ep, errorMiddleware(err).status, errorMiddleware(err).body,
                         FALSE, TRUE, FALSE, key, arg, raw, page, limit)
                       EXCEPT !.logged = errorMiddleware(err).logged,
                              !.faults = res.faults + 1]
         /\ cache' = cacheAfterGet(cache, key, now)
    ELSE /\ res' = Sent(ep, 200, resJson(ep, response), FALSE, TRUE, TRUE,
                        key, arg, raw, page, limit)
         /\ cache' = cacheSet(cacheAfterGet(cache, key, now), key, response, now)

\* the part common to the cached handlers, from cache.get to res.json:
\* the stored value is sent on a hit; otherwise the response is computed,
\* stored and sent; an error thrown by the computation leaves the handler
\* before cache.set and reaches the error middleware
Lookup(ep, key, err, response, arg, raw, page, limit) ==
    IF cacheHit(cache, key, now)
    THEN /\ res' = Sent(ep, 200, resJson(ep, cache[key].v), TRUE, TRUE, FALSE,
                        key, arg, raw, page, limit)
         /\ cache' = cache
    ELSE IF err # NoError
    THEN /\ res' = [Sent(ep, errorMiddleware(err).status, errorMiddleware(err).body,
                         FALSE, TRUE, FALSE, key, arg, raw, page, limit)
                       EXCEPT !.logged = errorMiddleware(err).logged,
                              !.faults = res.faults + 1]
         /\ cache' = cacheAfterGet(cache, key, now)
    ELSE /\ res' = Sent(ep, 200, resJson(ep, response), FALSE, TRUE, TRUE,
                        key, arg, raw, page, limit)
         /\ cache' = cacheSet(cacheAfterGet(cache, key, now), key, response, now)

\* app.get('/colleges/total')
Total ==
    /\ proc = "running"
    /\ served' = served + 1
    /\ res' = Sent("total", 200, [total |-> Len(colleges)], FALSE, FALSE, FALSE,
                   "", "", Undef, Undef, Undef)
    /\ UNCHANGED <<proc, norm, pair, file, colleges, csv, now, cache>>

searchKey(keyword, page, limit) ==
    "search:" \o keyword \o ":" \o TemplateString(page) \o ":" \o TemplateString(limit)

\* a variant of Search whose map assigns the normalized name to the row of
\* the dataset instead of to a copy of it
SearchInPlace(keyword, page, limit) ==
    /\ proc = "running"
    /\ served' = served + 1
    /\ IF ~(keywordValid(keyword) /\ pageValid(page) /\ limitValid(limit))
       THEN /\ res' = Sent("search", 400, ValidationErrors, FALSE, FALSE, FALSE,
                           "", "", keyword, page, limit)
            /\ cache' = cache
            /\ colleges' = colleges
       ELSE LET kw == trim(keyword.s)
                p == orDefault(page, 1)
                l == orDefault(limit, 10)
            IN /\ Lookup("search", searchKey(kw, p, l), searchError(colleges),
                         searchResponse(colleges, kw, p, l),
                         kw, keyword, p, l)
               /\ colleges' =
                     IF cacheHit(cache, searchKey(kw, p, l), now)
                        \/ searchError(colleges) # NoError
                     THEN colleges
                     ELSE [i \in 1..Len(colleges) |->
                             IF includes(toLowerCase(colleges[i].name), toLowerCase(kw))
                             THEN [colleges[i] EXCEPT
                                     !.name = cleanCollegeName(colleges[i].name)]
                             ELSE colleges[i]]
    /\ UNCHANGED <<proc, norm, pair, file, csv, now>>

\* app.post('/colleges/search') with req.body = {keyword, page, limit}
Search(keyword, page, limit) ==
    /\ proc = "running"
    /\ served' = served + 1
    /\ IF ~(keywordValid(keyword) /\ pageValid(page) /\ limitValid(limit))
       THEN /\ res' = Sent("search", 400, ValidationErrors, FALSE, FALSE, FALSE,
                           "", "", keyword, page, limit)
            /\ cache' = cache
       ELSE LET kw == trim(keyword.s)
                p == orDefault(page, 1)
                l == orDefault(limit, 10)
            IN Lookup("search", searchKey(kw, p, l), searchError(colleges),
                      searchResponse(colleges, kw, p, l),
                      kw, keyword, p, l)
    /\ UNCHANGED <<proc, norm, pair, file, colleges, csv, now>>

stateKey(state, page, limit) ==
    "state:" \o state \o ":" \o TemplateString(page) \o ":" \o TemplateString(limit)

\* app.get('/colleges/state/:state') with req.query = {page, limit} and
\* req.body = {page: bpage, limit: blimit}: the chains validate the body
State(state, page, limit, bpage, blimit) ==
    /\ proc = "running"
    /\ served' = served + 1
    /\ IF ~(pageValid(bpage) /\ limitValid(blimit))
       THEN /\ res' = Sent("state", 400, ValidationErrors, FALSE, FALSE, FALSE,
                           "", state, Str(state), page, limit)
            /\ cache' = cache
       ELSE LET p == orDefault(page, 1)
                l == orDefault(limit, 10)
            IN Lookup("state", stateKey(state, p, l), stateError(colleges, state),
                      stateResponse(colleges, state, p, l),
                      state, Str(state), p, l)
    /\ UNCHANGED <<proc, norm, pair, file, colleges, csv, now>>

districtKey(district, page, limit) ==
    "district:" \o district \o ":" \o TemplateString(page) \o ":" \o TemplateString(limit)

\* app.get('/colleges/district/:district')
District(district, page, limit, bpage, blimit) ==
    /\ proc = "running"
    /\ served' = served + 1
    /\ IF ~(pageValid(bpage) /\ limitValid(blimit))
       THEN /\ res' = Sent("district", 400, ValidationErrors, FALSE, FALSE, FALSE,
                           "", district, Str(district), page, limit)
            /\ cache' = cache
       ELSE LET p == orDefault(page, 1)
                l == orDefault(limit, 10)
            IN Lookup("district", districtKey(district, p, l),
                      districtError(colleges, district),
                      districtResponse(colleges, district, p, l),
                      district, Str(district), p, l)
    /\ UNCHANGED <<proc, norm, pair, file, colleges, csv, now>>

\* app.get('/allstates')
AllStates ==
    /\ proc = "running"
    /\ served' = served + 1
    /\ Lookup("allstates", "allstates", NoError, allStatesResult(colleges),
              "", Undef, Undef, Undef)
    /\ UNCHANGED <<proc, norm, pair, file, colleges, csv, now>>

districtsKey(state) == "districts:" \o state

\* app.get('/districts/:state')
Districts(state) ==
    /\ proc = "running"
    /\ served' = served + 1
    /\ Lookup("districts", districtsKey(state), districtsError(colleges),
              districtsResult(colleges, state), state, Str(state), Undef, Undef)
    /\ UNCHANGED <<proc, norm, pair, file, colleges, csv, now>>

----------------------------------------------------------------------------
(* The server from process start: the load runs while requests are served *)

Next ==
    \/ OnData
    \/ OnEnd
    \/ Tick
    \/ checkData
    \/ served < MaxRequests /\ Total
    \/ served < MaxRequests /\ \E r \in SearchRequests :
          Search(r.keyword, r.page, r.limit)
    \/ served < MaxRequests /\ \E r \in StateRequests :
          State(r.state, r.page, r.limit, r.bpage, r.blimit)
    \/ served < MaxRequests /\ \E r \in DistrictRequests :
          District(r.district, r.page, r.limit, r.bpage, r.blimit)
    \/ served < MaxRequests /\ AllStates
    \/ served < MaxRequests /\ \E s \in DistrictsRequests : Districts(s)

Spec == Init /\ [][Next]_vars

----------------------------------------------------------------------------
(* What a handler computes without the cache *)

\* the rows colleges held when the request of record r was handled
datasetSeen(r) == SubSeq(file, 1, r.seen)

\* the body the handler of r.ep sends for r's parameters when it computes
\* the response from the dataset of that moment
freshBody(r) ==
    CASE r.ep = "search" ->
           jsonEnvelope(searchResponse(datasetSeen(r), r.arg, r.page, r.limit))
      [] r.ep = "state" ->
           jsonEnvelope(stateResponse(datasetSeen(r), r.arg, r.page, r.limit))
      [] r.ep = "district" ->
           jsonEnvelope(districtResponse(datasetSeen(r), r.arg, r.page, r.limit))
      [] r.ep = "allstates" -> allStatesResult(datasetSeen(r))
      [] r.ep = "districts" -> districtsResult(datasetSeen(r), r.arg)
      [] r.ep = "total" -> [total |-> r.seen]

----------------------------------------------------------------------------
(* Claims about the server from process start *)

\* C1: every response of a query endpoint that a handler computes is
\* computed after the CSV 'end' event, or from an empty dataset; never from
\* a dataset holding only some of the rows of the file.
C1_LoadThenServe ==
    (res.ep \in QueryEndpoints /\ res.status = 200 /\ ~res.hit)
        => (res.ended \/ res.seen = 0)

\* C2: the response a cached endpoint sends equals the response its handler
\* computes from the dataset of that moment without the cache.
C2_CachePureOptimization ==
    (res.ep \in CachedEndpoints /\ res.status = 200) => res.body = freshBody(res)

\* C3: a state or district request whose query limit is 0, negative, above
\* 100 or non-numeric, or whose query page is below 1 or non-numeric, is
\* answered 400 without reading or writing the cache, and limit is never
\* used as 0.
C3_QueryValidated ==
    res.ep \in {"state", "district"} =>
        /\ (~limitValid(res.limit) \/ ~pageValid(res.page))
              => (res.status = 400 /\ ~res.got /\ ~res.set)
        /\ res.status = 200 => ToNumber(res.limit) # Num(0)

\* C5 as claimed: no lookup made 600 seconds or more after the entry was
\* set (res.old is the set time plus 600 s) is a hit.
C5_AbsentFrom600 ==
    (res.got /\ res.old >= 0 /\ res.at >= res.old) => ~res.hit

\* C5 as amended: an entry is returned at most 600 seconds after it was
\* set; a lookup made more than 600 seconds after finds it absent, so the
\* handler recomputes the response from the dataset and stores a new entry;
\* every stored entry expires at its set time plus 600 s.
C5_AbsentAfter600 ==
    /\ res.hit => (res.at <= res.old /\ res.exp = res.old)
    /\ (res.got /\ res.old >= 0 /\ res.at > res.old)
          => (~res.hit /\ res.set /\ res.body = freshBody(res))
    /\ (res.set /\ res.key \in DOMAIN cache)
          => cache[res.key].t = res.at + stdTTL * 1000

C5_Witness ==
    /\ res.got /\ res.old >= 0 /\ res.at > res.old
    /\ res.set /\ res.key \in DOMAIN cache

\* C6: once the load has completed, a request that hits a non-expired entry
\* receives the response that recomputing the query from the dataset gives.
C6_TransparentAfterLoad ==
    (res.ended /\ res.hit) => res.body = freshBody(res)

\* a keyword that is missing, not a string, empty or made of whitespace
missingOrBlank(v) ==
    v.k # "str" \/ \A i \in 1..Len(v.s) : IsSpace(CharAt(v.s, i))

\* C13: a search request whose keyword is missing, not a string, empty or
\* whitespace-only is answered 400 by a step that calls neither cache.get
\* nor cache.set and leaves every cache entry as it was.
C13_InvalidKeywordRejected ==
    [][(served' = served + 1 /\ res'.ep = "search" /\ missingOrBlank(res'.raw))
          => /\ res'.status = 400
             /\ res'.body = ValidationErrors
             /\ ~res'.got /\ ~res'.set
             /\ cache' = cache]_vars

C13_Witness ==
    /\ res.ep = "search" /\ res.status = 400
    /\ res.raw = Str(" ")
    /\ "search:abc:1:10" \in DOMAIN cache

\* C18: once the load has ended, no step changes the dataset: colleges
\* keeps its rows, in order, with the fields read from the file, the raw
\* name included.
C18_DatasetNeverMutated ==
    [][csv = "end" => (colleges' = colleges /\ colleges' = file)]_vars

\* a search served from the cache with normalized names, after an earlier
\* request computed it, over a dataset that still holds the raw name
C18_Witness ==
    /\ csv = "end" /\ res.ended /\ served = 2
    /\ res.ep = "search" /\ res.hit
    /\ res.body.data[1].name = "ABC College"
    /\ colleges = file
    /\ colleges[1].name = "ABC College (Id:12)"

\* the entry of key k is fresh in cache c at time t: stored and not past
\* its expiry time
fresh(c, k, t) == k \in DOMAIN c /\ c[k].t >= t

\* C19: each handler is one step, and in every step a fresh entry keeps its
\* value and its expiry time; a request that finds a fresh entry for its key
\* is a hit and does not call cache.set; a request calls cache.set only
\* when its key has no fresh entry.
C19_SetOnlyOnMiss ==
    [][/\ \A k \in DOMAIN cache :
             fresh(cache, k, now) => (k \in DOMAIN cache' /\ cache'[k] = cache[k])
       /\ (served' = served + 1 /\ res'.got /\ fresh(cache, res'.key, now))
             => (res'.hit /\ ~res'.set /\ res'.status = 200)
       /\ (served' = served + 1 /\ res'.set)
             => (~fresh(cache, res'.key, now) /\ fresh(cache', res'.key, now))]_vars

\* the second of two requests for a key, made 600 s after the first stored
\* the entry: a hit that leaves the expiry time where the first put it
C19_Witness ==
    /\ served = 2 /\ res.hit /\ ~res.set
    /\ res.at = stdTTL * 1000
    /\ res.old = stdTTL * 1000
    /\ cache[res.key].t = stdTTL * 1000

----------------------------------------------------------------------------
(* The server reading a file with incomplete rows *)

InitFault ==
    /\ file \in FaultFiles
    /\ colleges = <<>>
    /\ csv = "reading"
    /\ now = 0
    /\ cache = NoCache
    /\ served = 0
    /\ res = NoResponse
    /\ pair = NoPair
    /\ proc = "running"
    /\ norm = NoNorm

NextFault ==
    \/ OnData
    \/ OnEnd
    \/ Tick
    \/ checkData
    \/ served < MaxRequests /\ Total
    \/ served < MaxRequests /\ Search(Str("abc"), Undef, Undef)
    \/ served < MaxRequests /\ State("X", Undef, Undef, Undef, Undef)
    \/ served < MaxRequests /\ District("d1", Undef, Undef, Undef, Undef)
    \/ served < MaxRequests /\ AllStates
    \/ served < MaxRequests /\ Districts("y")

SpecFault == InitFault /\ [][NextFault]_vars

\* C14: a request whose handler throws is answered 500 with the fixed body
\* 'Something broke!'; the error goes to the log and not to the response;
\* the step adds no cache entry and changes none; the process keeps running.
C14_FaultAnswered500 ==
    [][(served' = served + 1 /\ res'.faults = res.faults + 1)
          => /\ res'.status = 500
             /\ res'.body = "Something broke!"
             /\ res'.logged = TypeError
             /\ res'.body # res'.logged
             /\ ~res'.set
             /\ \A k \in DOMAIN cache' : k \in DOMAIN cache /\ cache'[k] = cache[k]
             /\ proc' = "running"]_vars

\* a request is computed and answered 200 after an earlier request of the
\* same process was answered 500
C14_Witness ==
    /\ res.faults = 1 /\ res.status = 200 /\ res.set
    /\ res.ep = "search"
    /\ proc = "running"

----------------------------------------------------------------------------
(* The life of the process: a source file that cannot be read, and SIGTERM *)

\* the states of a process that received SIGTERM: its handler threw, it is
\* closing the HTTP server, or the server is closed
SigtermStates == {"SIGTERM: ReferenceError", "SIGTERM: closing", "closed"}

\* fs.createReadStream('db/database.csv') of a file that cannot be opened:
\* the stream emits 'error'; no listener is registered for it on the stream,
\* so the event is thrown as an uncaught exception and the process exits
OnError ==
    /\ proc = "running"
    /\ csv = "failing"
    /\ csv' = "error"
    /\ proc' = "error event"
    /\ UNCHANGED <<norm, pair, file, colleges, now, cache, served, res>>

\* process.on('SIGTERM', ...): console.log, then server.close(...) where no
\* binding named server exists (the value of app.listen is not kept): the
\* listener throws ReferenceError, an uncaught exception that ends the process
Sigterm ==
    /\ proc = "running"
    /\ proc' = "SIGTERM: ReferenceError"
    /\ UNCHANGED <<norm, pair, file, colleges, csv, now, cache, served, res>>

InitLife ==
    /\ \/ file \in SourceFiles /\ csv = "reading"
       \/ file = <<>> /\ csv = "failing"
    /\ colleges = <<>>
    /\ now = 0
    /\ cache = NoCache
    /\ served = 0
    /\ res = NoResponse
    /\ pair = NoPair
    /\ proc = "running"
    /\ norm = NoNorm

NextLife ==
    \/ OnData
    \/ OnEnd
    \/ OnError
    \/ Sigterm
    \/ Tick
    \/ checkData
    \/ served < MaxRequests /\ Total
    \/ served < MaxRequests /\ Search(Str("abc"), Undef, Undef)
    \/ served < MaxRequests /\ State("X", Undef, Undef, Undef, Undef)
    \/ served < MaxRequests /\ District("d3", Undef, Undef, Undef, Undef)
    \/ served < MaxRequests /\ AllStates
    \/ served < MaxRequests /\ Districts("x")

SpecLife == InitLife /\ [][NextLife]_vars

\* C15: while the source file cannot be read, no request has been answered
\* and no response has been cached.
C15_NoServiceWithoutFile ==
    csv \in {"failing", "error"} => (served = 0 /\ cache = NoCache)

\* C20: a process that received SIGTERM is closing its HTTP server or has
\* closed it; its SIGTERM handler has not failed.
C20_GracefulShutdown ==
    proc \in SigtermStates => proc \in {"SIGTERM: closing", "closed"}

----------------------------------------------------------------------------
(* The query engine: one request to a server that has loaded its dataset *)

InitQuery ==
    /\ file \in Datasets
    /\ colleges = file
    /\ csv = "end"
    /\ now = 0
    /\ cache = NoCache
    /\ served = 0
    /\ res = NoResponse
    /\ pair = NoPair
    /\ proc = "running"
    /\ norm = NoNorm

NextQuery ==
    \/ served = 0 /\ Total
    \/ served = 0 /\ \E k \in Keywords, p \in BodyPages, l \in BodyLimits :
          Search(k, p, l)
    \/ served = 0 /\ \E s \in PathStates, p \in QueryPages, l \in QueryLimits :
          State(s, p, l, Undef, Undef)
    \/ served = 0 /\ \E d \in PathDistricts, p \in QueryPages, l \in QueryLimits :
          District(d, p, l, Undef, Undef)
    \/ served = 0 /\ AllStates
    \/ served = 0 /\ \E s \in PathStates : Districts(s)

SpecQuery == InitQuery /\ [][NextQuery]_vars

----------------------------------------------------------------------------
(* Claims about the query engine *)

\* the filtered and normalized result of r's query, before pagination
fullResult(r) ==
    CASE r.ep = "search" -> mapClean(searchFilter(datasetSeen(r), r.arg))
      [] r.ep = "state" -> mapClean(stateFilter(datasetSeen(r), r.arg))
      [] r.ep = "district" -> mapClean(districtFilter(datasetSeen(r), r.arg))

\* the data the handler of r sends for r's query at page p
pageData(r, p) == freshBody([r EXCEPT !.page = Num(p)]).data

RECURSIVE concatPages(_, _)
concatPages(r, n) ==
    IF n <= 0 THEN <<>> ELSE concatPages(r, n - 1) \o pageData(r, n)

validPaging(r) ==
    /\ r.ep \in PagedEndpoints
    /\ r.status = 200
    /\ pageValid(r.page)
    /\ limitValid(r.limit)

\* C7: for a valid page and limit the data sent has at most limit records
\* and is the page of that number, and the data of pages 1..totalPages
\* concatenated in order is the full filtered result.
C7_PaginationPartitions ==
    validPaging(res) =>
        /\ Len(res.body.data) <= ToNumber(res.limit).n
        /\ res.body.data = pageData(res, ToNumber(res.page).n)
        /\ res.body.totalPages.k = "num"
        /\ concatPages(res, res.body.totalPages.n) = fullResult(res)

C7_Witness ==
    /\ validPaging(res)
    /\ res.body.totalPages.n >= 3
    /\ ToNumber(res.page).n = 2
    /\ Len(res.body.data) = 1

\* m is the ceiling of total / limit
isCeiling(m, total, limit) ==
    /\ m.k = "num" /\ limit.k = "num" /\ limit.n # 0
    /\ IF limit.n > 0
       THEN (m.n - 1) * limit.n < total /\ total <= m.n * limit.n
       ELSE (m.n - 1) * limit.n > total /\ total >= m.n * limit.n

\* C8: in every envelope of the search, state and district endpoints total
\* is the number of matching records, totalPages is the ceiling of
\* total / limit, and totalPages is 0 exactly when total is 0.
C8_TotalPages ==
    (res.ep \in PagedEndpoints /\ res.status = 200) =>
        /\ res.body.total = Len(fullResult(res))
        /\ isCeiling(res.body.totalPages, res.body.total, ToNumber(res.limit))
        /\ (res.body.totalPages = Num(0)) <=> (res.body.total = 0)

\* r asks for a page past the end of its result, with a valid limit, and
\* passes the validation of its handler
beyondRange(r) ==
    /\ r.ep \in PagedEndpoints
    /\ r.ep = "search" => keywordValid(r.raw)
    /\ limitValid(r.limit)
    /\ ToNumber(r.page).k = "num"
    /\ (ToNumber(r.page).n - 1) * ToNumber(r.limit).n >= Len(fullResult(r))

\* C9: a page past the end is answered 200 with empty data and the total
\* and totalPages of page 1.
C9_PageBeyondRange ==
    beyondRange(res) =>
        /\ res.status = 200
        /\ res.body.data = <<>>
        /\ res.body.total = freshBody([res EXCEPT !.page = Num(1)]).total
        /\ res.body.totalPages = freshBody([res EXCEPT !.page = Num(1)]).totalPages

C9_Witness ==
    /\ beyondRange(res)
    /\ res.body.total = 2
    /\ res.body.totalPages = Num(2)
    /\ ToNumber(res.page).n = 3

\* name contains keyword as a substring, ignoring letter case
containsIgnoringCase(name, keyword) ==
    \E i \in 0..(Len(name) - Len(keyword)) :
        toLowerCase(SubSeq(name, i + 1, i + Len(keyword))) = toLowerCase(keyword)

\* the records of rows whose raw name contains keyword ignoring case, in
\* order, each with its name normalized
expectedMatches(rows, keyword) ==
    LET match(c) == containsIgnoringCase(c.name, keyword)
        found == SelectSeq(rows, match)
    IN [i \in 1..Len(found) |-> [found[i] EXCEPT !.name = cleanCollegeName(found[i].name)]]

\* the keywords of the requests that differ from keyword in letter case only
sameButCase(keyword) ==
    {k \in {x.s : x \in Keywords} : toLowerCase(k) = toLowerCase(keyword)}

\* the search response for keyword k holds the page of the expected matches
\* and their count, and the response for every keyword differing from k in
\* letter case only has the same data and total
searchMatches(r, k) ==
    /\ r.body.total = Len(expectedMatches(datasetSeen(r), k))
    /\ r.body.data = paginatedResult(expectedMatches(datasetSeen(r), k), r.page, r.limit)
    /\ \A k2 \in sameButCase(k) :
          LET other == freshBody([r EXCEPT !.arg = trim(k2)])
          IN other.data = r.body.data /\ other.total = r.body.total

\* C10 as claimed: a search returns the records whose raw name contains the
\* keyword of the request.
C10_RawKeywordMatch ==
    (res.ep = "search" /\ res.status = 200) => searchMatches(res, res.raw.s)

\* C10 as amended: a search returns the records whose raw name contains the
\* keyword of the request with its leading and trailing whitespace removed.
C10_TrimmedKeywordMatch ==
    (res.ep = "search" /\ res.status = 200) => searchMatches(res, trim(res.raw.s))

C10_Witness ==
    /\ res.ep = "search" /\ res.status = 200
    /\ res.raw = Str("ABC")
    /\ res.body.total = 3
    /\ \E i \in 1..Len(res.body.data) : res.body.data[i].name = "ABC College"

\* a and b are the same string up to the case of their letters
equalIgnoringCase(a, b) ==
    /\ Len(a) = Len(b)
    /\ \A i \in 1..Len(a) : LowerChar(CharAt(a, i)) = LowerChar(CharAt(b, i))

\* the rows whose field equals value ignoring case, in the order of rows,
\* each with its name normalized and its other fields as they are
expectedByField(rows, field, value) ==
    LET found == Pick(rows, {i \in 1..Len(rows) : equalIgnoringCase(rows[i][field], value)})
    IN [i \in 1..Len(found) |->
           [name |-> cleanCollegeName(found[i].name),
            state |-> found[i].state,
            district |-> found[i].district]]

\* C11: the state (district) endpoint counts and pages exactly the records
\* whose state (district) field equals the path parameter ignoring case,
\* whole field and not substring, in dataset order, with names normalized.
C11_FilterByField ==
    (res.ep \in {"state", "district"} /\ res.status = 200) =>
        LET expected == expectedByField(datasetSeen(res), res.ep, res.arg)
        IN /\ res.body.total = Len(expected)
           /\ res.body.data = paginatedResult(expected, res.page, res.limit)

C11_Witness ==
    /\ res.ep = "state" /\ res.status = 200 /\ res.arg = "X"
    /\ res.body.total = 3
    /\ \E i \in 1..Len(res.body.data) :
          res.body.data[i].state = "x" /\ res.body.data[i].name = "Tech abc"
    /\ \E i \in 1..Len(res.body.data) :
          res.body.data[i].state = "X" /\ res.body.data[i].name = "ABC College"

\* list holds no value twice and ascends in the order of Array.prototype.sort
ascendingDistinct(list) ==
    \A i \in 1..Len(list) : \A j \in 1..Len(list) :
        i < j => StrLess(list[i], list[j])

\* C12: the listings of /allstates and /districts/:state hold no value
\* twice and are sorted ascending; /allstates holds every state value of
\* the dataset and nothing else, /districts/:state exactly the district
\* values of the records whose state equals the parameter ignoring case.
C12_Listings ==
    LET rows == datasetSeen(res) IN
    /\ (res.ep = "allstates" /\ res.status = 200) =>
          /\ ascendingDistinct(res.body)
          /\ Range(res.body) = {rows[i].state : i \in 1..Len(rows)}
    /\ (res.ep = "districts" /\ res.status = 200) =>
          /\ ascendingDistinct(res.body)
          /\ Range(res.body) =
                {rows[i].district :
                    i \in {j \in 1..Len(rows) : equalIgnoringCase(rows[j].state, res.arg)}}

C12_Witness ==
    /\ res.ep = "districts" /\ res.status = 200 /\ res.arg = "X"
    /\ datasetSeen(res) = <<Row1, Row4, Row5>>
    /\ res.body = <<"D0", "D1">>

----------------------------------------------------------------------------
(* Cache key construction: the keys of two requests *)

KeyRequests ==
    [ep : {"search"}, arg : {"a", " a", "a:1"}, page : {Undef, Num(2)},
     limit : {Undef, Num(3), Num(0)}, bpage : {Undef}, blimit : {Undef}]
    \union
    [ep : {"state", "district"}, arg : {"a", "a:1"},
     page : {Undef, Str("2"), Str("1:2")}, limit : {Undef, Str("3")},
     bpage : {Undef}, blimit : {Undef, Num(0)}]
    \union
    [ep : {"districts"}, arg : {"a", "a:1"}, page : {Undef}, limit : {Undef},
     bpage : {Undef}, blimit : {Undef}]
    \union
    [ep : {"allstates"}, arg : {""}, page : {Undef}, limit : {Undef},
     bpage : {Undef}, blimit : {Undef}]

\* the handler of q.ep does not answer q with 400
accepted(q) ==
    CASE q.ep = "search" ->
           keywordValid(Str(q.arg)) /\ pageValid(q.page) /\ limitValid(q.limit)
      [] q.ep \in {"state", "district"} -> pageValid(q.bpage) /\ limitValid(q.blimit)
      [] OTHER -> TRUE

\* the cacheKey the handler of q.ep builds for q
cacheKey(q) ==
    CASE q.ep = "search" ->
           searchKey(trim(q.arg), orDefault(q.page, 1), orDefault(q.limit, 10))
      [] q.ep = "state" ->
           stateKey(q.arg, orDefault(q.page, 1), orDefault(q.limit, 10))
      [] q.ep = "district" ->
           districtKey(q.arg, orDefault(q.page, 1), orDefault(q.limit, 10))
      [] q.ep = "districts" -> districtsKey(q.arg)
      [] q.ep = "allstates" -> "allstates"

InitKeys ==
    /\ file \in SourceFiles
    /\ colleges = <<>>
    /\ csv = "reading"
    /\ now = 0
    /\ cache = NoCache
    /\ served = 0
    /\ res = NoResponse
    /\ pair \in [a : KeyRequests, b : KeyRequests, ka : {""}, kb : {""}, built : {FALSE}]
    /\ proc = "running"
    /\ norm = NoNorm

\* both requests are accepted and each handler builds its cacheKey
BuildKeys ==
    /\ ~pair.built
    /\ accepted(pair.a) /\ accepted(pair.b)
    /\ pair' = [pair EXCEPT !.ka = cacheKey(pair.a), !.kb = cacheKey(pair.b),
                            !.built = TRUE]
    /\ UNCHANGED <<proc, norm, file, colleges, csv, now, cache, served, res>>

SpecKeys == InitKeys /\ [][BuildKeys]_vars

\* the argument the handler of q.ep uses: the trimmed keyword, or the path
\* parameter
usedArg(q) == IF q.ep = "search" THEN trim(q.arg) ELSE q.arg

\* a and b are distinct logical queries: they differ in endpoint, in
\* keyword/state/district, in page or in limit
distinctQueries(a, b) ==
    \/ a.ep # b.ep
    \/ usedArg(a) # usedArg(b)
    \/ ToNumber(orDefault(a.page, 1)) # ToNumber(orDefault(b.page, 1))
    \/ ToNumber(orDefault(a.limit, 10)) # ToNumber(orDefault(b.limit, 10))

\* C4: the cache keys built for two accepted requests that are distinct
\* logical queries are different strings.
C4_KeysCollisionFree ==
    (pair.built /\ distinctQueries(pair.a, pair.b)) => pair.ka # pair.kb

----------------------------------------------------------------------------
(* The name normalizer applied to name strings *)

\* the pieces names are built of: the characters the two patterns of
\* cleanCollegeName look at, in upper and lower case, and plain text
NameTokens == {"(", "Id", "(iD", ":", ")", ">", " ", "a"}

RECURSIVE Join(_)
Join(ts) == IF Len(ts) = 0 THEN "" ELSE ts[1] \o Join(Tail(ts))

\* the name strings of at most MaxTokens pieces
Names == {Join(ts) : ts \in UNION {[1..n -> NameTokens] : n \in 0..MaxTokens}}

InitNames ==
    /\ norm \in {[name |-> n, out |-> "", again |-> "", step |-> 0] : n \in Names}
    /\ file = <<>>
    /\ colleges = <<>>
    /\ csv = "end"
    /\ now = 0
    /\ cache = NoCache
    /\ served = 0
    /\ res = NoResponse
    /\ pair = NoPair
    /\ proc = "running"

\* cleanCollegeName(name)
Clean ==
    /\ norm.step = 0
    /\ norm' = [norm EXCEPT !.out = cleanCollegeName(norm.name), !.step = 1]
    /\ UNCHANGED <<proc, pair, file, colleges, csv, now, cache, served, res>>

\* cleanCollegeName applied to its own result
CleanAgain ==
    /\ norm.step = 1
    /\ norm' = [norm EXCEPT !.again = cleanCollegeName(norm.out), !.step = 2]
    /\ UNCHANGED <<proc, pair, file, colleges, csv, now, cache, served, res>>

NextNames == Clean \/ CleanAgain

SpecNames == InitNames /\ [][NextNames]_vars

\* C16: cleanCollegeName applied to its own result returns that result.
C16_Idempotent ==
    norm.step = 2 => norm.again = norm.out

\* s without each annotation that starts at a colon and ends at the next
\* closing parenthesis after it
RECURSIVE withoutAnnotations(_)
withoutAnnotations(s) ==
    IF s = "" THEN ""
    ELSE IF CharAt(s, 1) = ":" /\ \E j \in 2..Len(s) : CharAt(s, j) = ")"
    THEN LET close == CHOOSE j \in 2..Len(s) :
                          /\ CharAt(s, j) = ")"
                          /\ \A m \in 2..(j - 1) : CharAt(s, m) # ")"
         IN withoutAnnotations(SubSeq(s, close + 1, Len(s)))
    ELSE CharAt(s, 1) \o withoutAnnotations(Tail(s))

\* s holds a colon followed somewhere by a closing parenthesis
hasAnnotation(s) ==
    \E i \in 1..Len(s) : \E j \in (i + 1)..Len(s) :
        CharAt(s, i) = ":" /\ CharAt(s, j) = ")"

\* C17: cleanCollegeName returns the name without its colon-to-next-
\* parenthesis annotations and without its "(Id" markers, trimmed; the
\* result holds no "(Id" marker; a name with no annotation and no marker is
\* returned as its trimmed input.
C17_NormalizerAsDescribed ==
    norm.step >= 1 =>
        /\ norm.out = trim(StripId(withoutAnnotations(norm.name)))
        /\ ~containsIgnoringCase(norm.out, "(Id")
        /\ (~hasAnnotation(norm.name) /\ ~containsIgnoringCase(norm.name, "(Id"))
              => norm.out = trim(norm.name)

====
